---- MODULE Spec2Model ----
(***************************************************************************)
(* Model of pavilion's string parsing front end                            *)
(* (lib/pavilion/parsers/__init__.py): parse_text, its tree cache, and the *)
(* syntax error classifier match_examples.                                 *)
(*                                                                         *)
(* The two grammars (lark parsers) and the transformer live outside this   *)
(* module's source; they are modelled as a deterministic environment whose *)
(* answer for each text is decided the first time the text is parsed       *)
(* (gram) or transformed under a variable manager (xform) and is the same  *)
(* ever after.                                                             *)
(***************************************************************************)
EXTENDS Integers, Sequences, FiniteSets, TLC

(***************************************************************************)
(* Bounds of the model.                                                    *)
(***************************************************************************)
\* parse_text calls made by one thread in a run of SpecCalls.
MaxCalls == 2

(***************************************************************************)
(* Characters and texts.  A text is a sequence of one-character strings.   *)
(***************************************************************************)
WordChars == {"a", "b"}
WsChars == {" ", "\t"}

\* The texts handed to parse_text.
PlainText == <<"a", "b">>
OpenExprText == <<"{", "{", "a">>
EscapeText == <<"\\", " ">>
OrigTexts == {PlainText, OpenExprText, EscapeText}

\* The variable managers a call may be given.
VarMans == {"vm1", "vm2"}

\* text[:n]
Prefix(text, n) == SubSeq(text, 1, n)
\* text[n:]
Suffix(text, n) == SubSeq(text, n + 1, Len(text))
\* text[n], zero based as in the source
CharAt(text, n) == text[n + 1]

\* substring test: sub in text
Contains(text, sub) ==
    \E i \in 0..(Len(text) - Len(sub)) : SubSeq(text, i + 1, i + Len(sub)) = sub

\* strings.should_parse: does the text hold anything the grammar must see.
should_parse(text) ==
    \/ Contains(text, <<"{", "{">>)
    \/ Contains(text, <<"[", "~">>)
    \/ Contains(text, <<"\\">>)

(***************************************************************************)
(* The error catalog.                                                      *)
(***************************************************************************)
ErrorCat(message, examples) == [message |-> message, examples |-> examples]

Ex1 == <<"{", "b">>
Ex2 == <<"\t", "~">>
Ex3 == <<"b", "\t">>

BAD_EXAMPLES == <<
    ErrorCat("Unmatched {{", <<Ex1, Ex2>>),
    ErrorCat("Unmatched [~", <<Ex3>>) >>

\* A catalog of one example, for the runs that make several calls.  The
\* example is a prefix of OpenExprText, as '{{' is of many texts.
Ex0 == <<"{", "{">>
ONE_EXAMPLE == << ErrorCat("Unmatched {{", <<Ex0>>) >>

NO_MATCH_EXAMPLE == ErrorCat("Unknown syntax error", <<>>)

\* The value Python's None.
None == "None"

(***************************************************************************)
(* What a parse or a transformation can end in.  kind is "tree" (the       *)
(* grammar accepted), "value" (the transformer produced the string),       *)
(* "char" (lark.UnexpectedCharacters), "token" (lark.UnexpectedToken),     *)
(* "pve" (ParserValueError), "deferred" (variables.DeferredError, standing *)
(* for every exception parse_text has no handler for) or "unknown" (not    *)
(* decided yet).  pos is pos_in_stream, state the automaton's state stack, *)
(* token the unexpected token, expr_error the annotation the transformer   *)
(* puts on failures of the expression grammar.                             *)
(***************************************************************************)
Token(type, text) == [type |-> type, text |-> text]
NoToken == Token("", "")
TokA1 == Token("A", "x")
TokA2 == Token("A", "y")
TokB == Token("B", "z")
Tokens == {TokA1, TokA2, TokB}

\* The stacks state_stack_dist is called with on its own: every sequence
\* of at most MaxStackLen parser states out of four, and the stacks abcd,
\* acd and dcba of the table in the docstring of _state_stack_dist.
MaxStackLen == 3
StackElems == {1, 2, 3, 4}
DocStacks == {<<1, 2, 3, 4>>, <<1, 3, 4>>, <<4, 3, 2, 1>>}
Stacks == UNION {[1..n -> StackElems] : n \in 0..MaxStackLen} \cup DocStacks

Stack1 == <<1, 2, 3>>
Stack2 == <<1, 3>>
States == {Stack1, Stack2}
\* A stack with no state of Stack1 or Stack2: as far from them as can be.
\* The last example may fail there on a token of another type than the
\* text's.
Stack3 == <<4>>

Outcome(kind, pos, state, token, expr_error) ==
    [kind |-> kind, pos |-> pos, state |-> state, token |-> token,
     expr_error |-> expr_error]
Plain(kind) == Outcome(kind, 0, <<>>, NoToken, FALSE)
Unknown == Plain("unknown")

IsGrammarFailure(o) == o.kind \in {"char", "token"}

(***************************************************************************)
(* Scores are exact fractions <<numerator, denominator>>, denominator > 0. *)
(* The source computes them in floating point; for stacks of the lengths   *)
(* modelled the rounding neither merges nor reorders two scores.           *)
(***************************************************************************)
Frac(n, d) == <<n, d>>
FracLeq(x, y) == x[1] * y[2] <= y[1] * x[2]
FracLt(x, y) == x[1] * y[2] < y[1] * x[2]
FracEq(x, y) == x[1] * y[2] = y[1] * x[2]
FracAddInt(x, k) == Frac(x[1] + k * x[2], x[2])

\* The scan of one element of stack1 through stack2 from tmp_ptr on:
\* the index just past the match, or 0 when the scan runs off the end.
RECURSIVE ScanFrom(_, _, _)
ScanFrom(item, stack2, tmp_ptr) ==
    IF tmp_ptr >= Len(stack2) THEN 0
    ELSE IF item = stack2[tmp_ptr + 1] THEN tmp_ptr + 1
    ELSE ScanFrom(item, stack2, tmp_ptr + 1)

\* The loop of _state_stack_dist from element ptr1 on, cursor ptr2.
RECURSIVE StackDistFrom(_, _, _, _)
StackDistFrom(stack1, stack2, ptr1, ptr2) ==
    IF ptr1 >= Len(stack1) THEN 0
    ELSE LET found == ScanFrom(stack1[ptr1 + 1], stack2, ptr2)
         IN  IF found = 0
             THEN 1 + StackDistFrom(stack1, stack2, ptr1 + 1, ptr2)
             ELSE StackDistFrom(stack1, stack2, ptr1 + 1, found)

\* _state_stack_dist without the cursor: the elements of stack1 that occur
\* nowhere in stack2.
StackDistNoCursor(stack1, stack2) ==
    Cardinality({i \in 1..Len(stack1) :
                    \A j \in 1..Len(stack2) : stack2[j] # stack1[i]})

_state_stack_dist(stack1, stack2) == StackDistFrom(stack1, stack2, 0, 0)

\* state_stack_dist counting the mismatches of one direction only.
StackDistOneWay(stack1, stack2) ==
    IF Len(stack1) + Len(stack2) = 0 THEN Frac(0, 1)
    ELSE Frac(_state_stack_dist(stack1, stack2), Len(stack1) + Len(stack2))

state_stack_dist(stack1, stack2) ==
    LET dist1 == _state_stack_dist(stack1, stack2)
        dist2 == _state_stack_dist(stack2, stack1)
        total_stack_len == Len(stack1) + Len(stack2)
    IN  IF total_stack_len = 0 THEN Frac(0, 1)
        ELSE Frac(dist1 + dist2, total_stack_len)

\* regex.match(str1) is not None and regex.match(str2) is not None, for a
\* regex of the form <class>+ : each string starts with a character of the
\* class.
re_compare(str1, str2, class) ==
    /\ Len(str1) > 0 /\ str1[1] \in class
    /\ Len(str2) > 0 /\ str2[1] \in class

(***************************************************************************)
(* The environment: what the grammar and the transformer may answer.       *)
(***************************************************************************)
RECURSIVE Flatten(_, _)
\* The (entry, example) pairs of a catalog in the order the nested loops of
\* match_examples visit them, from entry i on.
Flatten(examples, i) ==
    IF i > Len(examples) THEN <<>>
    ELSE [j \in 1..Len(examples[i].examples) |->
             [entry |-> i, ex_text |-> examples[i].examples[j]]]
         \o Flatten(examples, i + 1)

ExampleTexts == {Ex1, Ex2, Ex3}
PrefixTexts == UNION {{Prefix(t, n) : n \in 1..Len(t)} : t \in OrigTexts}
AllTexts == OrigTexts \cup ExampleTexts \cup PrefixTexts

\* The answers parser.parse may give for a text.  A text given to
\* parse_text fails, when it fails on a token, at Stack1 on TokA1, at its
\* last character or the one before; the catalog examples range over every
\* state and token.
ParseOutcomes(t) ==
    {Plain("tree")}
    \cup {Outcome("char", q, Stack1, NoToken, FALSE) :
             q \in IF t \in OrigTexts \cup ExampleTexts
                   THEN 0..(Len(t) - 1) ELSE {0}}
    \cup {Outcome("token", q, s, k, FALSE) :
             q \in IF t \in OrigTexts THEN {Len(t) - 2, Len(t) - 1}
                   ELSE {Len(t) - 1},
             s \in IF t \in OrigTexts THEN {Stack1} ELSE States,
             k \in IF t \in ExampleTexts THEN Tokens ELSE {TokA1}}
    \cup (IF t = Ex3
          THEN {Outcome("token", Len(t) - 1, Stack3, TokB, FALSE)} ELSE {})

\* The answers transformer.transform may give for the tree of a text: the
\* value, a failure of the expression grammar (annotated), a
\* ParserValueError or a deferred variable.
XformOutcomes(t) ==
    {Plain("value"), Outcome("pve", 0, <<>>, NoToken, FALSE),
     Plain("deferred")}
    \cup (IF t \in ExampleTexts
          THEN {Outcome("char", 0, Stack1, NoToken, TRUE)} ELSE {})
    \cup {Outcome("token", Len(t) - 1, s, k, TRUE) :
             s \in IF t \in ExampleTexts THEN States ELSE {Stack1},
             k \in IF t \in ExampleTexts THEN {TokA1, TokA2} ELSE {TokA1}}

\* parser.parse(txt): the tree the grammar derives for a text.
TreeOf(txt) == [src |-> txt]
\* transformer.transform(tree) when it succeeds.
ValueOf(txt, var_man) == <<"value", txt, var_man>>
\* err.get_context(text)
get_context(err, text) == [text |-> text, pos |-> err.pos]
\* str(err) of a ParserValueError
PveMessage == "ParserValueError message"

\* str() of a context: the text, then a caret under the failing column.
RECURSIVE JoinChars(_)
JoinChars(s) == IF s = <<>> THEN "" ELSE Head(s) \o JoinChars(Tail(s))
RECURSIVE Spaces(_)
Spaces(n) == IF n = 0 THEN "" ELSE " " \o Spaces(n - 1)
RenderContext(ctx) == JoinChars(ctx.text) \o "\n" \o Spaces(ctx.pos) \o "^\n"

\* The answers the expression parser may give for a text: a tree or a
\* grammar failure at its last character, never annotated.
ExprOutcomes(t) ==
    {Plain("tree"), Outcome("char", Len(t) - 1, Stack1, NoToken, FALSE)}
    \cup {Outcome("token", Len(t) - 1, s, TokA1, FALSE) : s \in States}
\* visitor.visit(tree): the variables the expression uses.
VarsUsed(txt) == <<"vars_used", txt>>

(***************************************************************************)
(* State.                                                                  *)
(***************************************************************************)
\* The threads that call the entry points: one, or two side by side.
OneThread == {1}
TwoThreads == {1, 2}

VARIABLES
    TREE_CACHE,     \* _TREE_CACHE: text -> tree
    gram,           \* environment: text -> what parser.parse does with it
    xform,          \* environment: <<text, var_man>> -> what transform does
    egram,          \* environment: text -> what the expression parser does
    has_state_attr, \* environment: do the library's failures carry .state
    examples,       \* the catalog match_examples is given
    th,             \* per thread: the frame of its call
    sd,             \* the frame of a call of state_stack_dist on its own
    LOADED_TESTS,   \* test_run.utils.LOADED_TESTS: id pair -> test
    lt,             \* the frame of a call of load_tests
    gl              \* the frame of a call of get_latest_tests

vars == <<TREE_CACHE, gram, xform, egram, has_state_attr, examples, th, sd,
          LOADED_TESTS, lt, gl>>
\* The state of test_run.utils.
runs == <<LOADED_TESTS, lt, gl>>
\* What parse_text and its classifier neither read nor write, or only read.
env == <<egram, has_state_attr, examples, sd, runs>>

Threads == DOMAIN th

FlatExamples == Flatten(examples, 1)

NoReturn == "<no return>"
Result(type, value, context) ==
    [type |-> type, value |-> value, context |-> context]
NoResult == Result("none", "", "")

IdleFrame(calls) ==
    [pc |-> "idle", calls |-> calls, entry |-> "",
     text |-> <<>>, var_man |-> "",
     txt |-> <<>>, site |-> "", missed |-> FALSE, tree |-> TreeOf(<<>>),
     exc |-> Unknown, err_pos |-> 0, err_string |-> <<>>,
     ex_k |-> 0, closest_dist |-> Frac(2, 1),
     closest_example |-> NO_MATCH_EXAMPLE,
     closest_err |-> Unknown, closest_ex |-> <<>>,
     me_ret |-> NoReturn, me_how |-> "",
     result |-> NoResult,
     n_get |-> 0, n_parse |-> 0, n_transform |-> 0,
     cache0 |-> <<>>]

\* No call of state_stack_dist is under way.
IdleDist ==
    [pc |-> "idle", stack1 |-> <<>>, stack2 |-> <<>>,
     dist1 |-> 0, dist2 |-> 0, total_stack_len |-> 0, ret |-> Frac(0, 1)]

\* No call of load_tests is under way; `calls` calls are over.  Two fields
\* outlive a call: `loaded`, the id pairs whose load has returned a test,
\* and `reloaded`, the id pairs submitted for loading after that.
IdleLoad(calls) ==
    [pc |-> "idle", calls |-> calls, id_pairs |-> <<>>,
     tests |-> <<>>, not_loaded |-> <<>>, results |-> 0,
     failed |-> {}, errfile |-> <<>>, result |-> NoResult,
     loaded |-> {}, reloaded |-> {}]

\* No call of get_latest_tests is under way.
IdleLatest ==
    [pc |-> "idle", dirs |-> <<>>, limit |-> 0, test_dir_list |-> <<>>,
     ret |-> <<>>]

InitWith(catalog, callers) ==
    /\ sd = IdleDist
    /\ LOADED_TESTS = <<>>
    /\ lt = IdleLoad(0)
    /\ gl = IdleLatest
    /\ examples = catalog
    /\ TREE_CACHE = <<>>
    /\ gram = [t \in AllTexts |-> Unknown]
    /\ egram = [t \in AllTexts |-> Unknown]
    /\ xform = [tv \in AllTexts \X VarMans |-> Unknown]
    /\ has_state_attr \in BOOLEAN
    /\ th = [p \in callers |-> IdleFrame(0)]

\* One call of parse_text, with the whole catalog.
Init == InitWith(BAD_EXAMPLES, OneThread)
\* A sequence of calls of parse_text, with the catalog of one example.
InitCalls == InitWith(ONE_EXAMPLE, OneThread)
\* Two threads, one call of parse_text each, with the catalog of one example.
InitThreads == InitWith(ONE_EXAMPLE, TwoThreads)

(***************************************************************************)
(* parse_text and match_examples, as operators on the frame c of a call.   *)
(***************************************************************************)
\* The call is over: it returned or raised `result`.
Done(c, result) == [c EXCEPT !.pc = "done", !.result = result]

\* ExprMessage as the classifier's message alone.
ExprMessageBare(err_type, context) == err_type

\* The message check_expression gives its StringParserError.
ExprMessage(err_type, context) ==
    err_type \o ":\n" \o RenderContext(context)

\* match_examples returns `value`; the entry point raises the
\* StringParserError built from it and from the context of the original
\* failure.
MatchReturn(c, value, how) ==
    LET context == get_context(c.exc, c.text)
    IN  [c EXCEPT !.me_ret = value, !.me_how = how, !.pc = "done",
                  !.result = Result("StringParserError",
                                    IF c.entry = "check_expression"
                                    THEN ExprMessage(value, context)
                                    ELSE value,
                                    context)]

\* The head of match_examples: no state attribute, no classification.
MatchBegin(c) ==
    IF ~has_state_attr
    THEN MatchReturn(c, None, "nostate")
    ELSE [c EXCEPT !.err_pos = c.exc.pos + 1, !.err_string = c.text,
                   !.pc = "localize"]

\* OnMainDeferred as one more error parse_text reports as a syntax error.
OnMainDeferredAsSyntaxError(c) ==
    Done(c, Result("StringParserError", "DeferredError",
                   get_context(Unknown, c.text)))

\* parse_fn(text) raised something neither except clause of parse_text
\* names (a deferred variable): it leaves parse_text as it is.
OnMainDeferred(c) == Done(c, Result("DeferredError", "", ""))

\* parse_fn returned: the value of a text, or the tree of an expression.
Returned(o) == o.kind \in {"value", "tree"}

\* parse_fn(text) of parse_text, or parser.parse(expr) of check_expression,
\* ended in o.
HandleMain(c, o) ==
    CASE o.kind = "value" ->
            Done(c, Result("return", ValueOf(c.text, c.var_man), ""))
      [] o.kind = "tree" ->
            Done(c, Result("return", VarsUsed(c.text), ""))
      [] IsGrammarFailure(o) ->
            MatchBegin([c EXCEPT !.exc = o])
      [] o.kind = "pve" ->
            Done(c, Result("StringParserError", PveMessage,
                           get_context(o, c.text)))
      [] OTHER -> OnMainDeferred(c)

\* parse_fn(text[:err_pos]) of the localization loop ended in o.
HandlePrefix(c, o) ==
    CASE Returned(o) ->
            [c EXCEPT !.err_pos = @ + 1, !.pc = "localize"]
      [] IsGrammarFailure(o) ->
            [c EXCEPT !.err_string =
                          IF o.state = c.exc.state
                          THEN SubSeq(c.text, c.exc.pos + 1, c.err_pos)
                          ELSE @,
                      !.err_pos = @ + 1, !.pc = "localize"]
      [] o.kind = "pve" ->
            Done(c, Result("ParserValueError", PveMessage, ""))
      [] OTHER ->
            Done(c, Result("DeferredError", "", ""))

\* CharExact without the two character classes.
CharExactEqualOnly(ex_text, err, text, exc) ==
    CharAt(ex_text, err.pos) = CharAt(text, exc.pos)

\* Both failures are unexpected characters: are the characters alike.
CharExact(ex_text, err, text, exc) ==
    \/ CharAt(ex_text, err.pos) = CharAt(text, exc.pos)
    \/ re_compare(Suffix(ex_text, err.pos), <<CharAt(text, exc.pos)>>,
                  WordChars)
    \/ re_compare(Suffix(ex_text, err.pos), <<CharAt(text, exc.pos)>>,
                  WsChars)

\* AnnotationsAgree without the comparison.
AnnotationsIgnored(err, exc) == TRUE

\* hasattr(err, 'expr_error') == hasattr(exc, 'expr_error')
AnnotationsAgree(err, exc) == err.expr_error = exc.expr_error

\* err.state == exc.state and err.token == exc.token; a state is taken to
\* be its state stack, a token its type and its text.
TokenExact(err, exc) == err.state = exc.state /\ err.token = exc.token

\* FuzzyDist without the bonus for tokens of the same type.
FuzzyDistNoTypeBonus(err, exc) ==
    FracAddInt(state_stack_dist(err.state, exc.state), 1)

\* The score of a token failure that is not an exact match.
FuzzyDist(err, exc) ==
    LET dist == FracAddInt(state_stack_dist(err.state, exc.state), 1)
    IN  IF exc.token.type = err.token.type
        THEN FracAddInt(dist, -1) ELSE dist

\* InitialClosestDist as the greatest stack distance alone.
InitialClosestDistOne == Frac(1, 1)

\* closest_dist = 2.0: the score the first candidate has to reach.
InitialClosestDist == Frac(2, 1)

\* Closer with a strict comparison.
CloserStrict(dist, closest_dist) == FracLt(dist, closest_dist)

\* dist <= closest_dist
Closer(dist, closest_dist) == FracLeq(dist, closest_dist)

\* continue: on to the next example.
NextExample(c) == [c EXCEPT !.ex_k = @ + 1, !.pc = "examples"]

\* OnExact that only notes the match as the closest so far and goes on.
OnExactKeepsLooking(c, example) ==
    [NextExample(c) EXCEPT !.closest_dist = Frac(0, 1),
                           !.closest_example = example]

\* An exact match: return example.message at once.
OnExact(c, example) == MatchReturn(c, example.message, "exact")

\* A partial match: keep it when no closer one was seen.
OnFuzzy(c, example, ex_text, err) ==
    LET dist == FuzzyDist(err, c.exc)
    IN  IF Closer(dist, c.closest_dist)
        THEN [NextExample(c) EXCEPT !.closest_err = err,
                                    !.closest_dist = dist,
                                    !.closest_example = example,
                                    !.closest_ex = ex_text]
        ELSE NextExample(c)

\* OnInvalidExample letting the ParserValueError through as it is.
OnInvalidExamplePropagates(c, ex_text) ==
    Done(c, Result("ParserValueError", PveMessage, ""))

\* OnInvalidExample skipping the example.
OnInvalidExampleSkips(c, ex_text) == NextExample(c)

\* The example raised a ParserValueError: the catalog is broken.
OnInvalidExample(c, ex_text) ==
    Done(c, Result("RuntimeError", "Invalid failure example", ex_text))

\* parse_fn(ex_text) of the matching loop ended in o.
HandleExample(c, o) ==
    LET ex_text == FlatExamples[c.ex_k].ex_text
        example == examples[FlatExamples[c.ex_k].entry]
    IN  CASE Returned(o) -> NextExample(c)
          [] o.kind = "char" ->
                IF c.exc.kind # "char" THEN NextExample(c)
                ELSE IF CharExact(ex_text, o, c.text, c.exc)
                THEN OnExact(c, example)
                ELSE NextExample(c)
          [] o.kind = "token" ->
                IF c.exc.kind # "token" THEN NextExample(c)
                ELSE IF ~AnnotationsAgree(o, c.exc) THEN NextExample(c)
                ELSE IF TokenExact(o, c.exc)
                THEN OnExact(c, example)
                ELSE OnFuzzy(c, example, ex_text, o)
          [] o.kind = "pve" -> OnInvalidExample(c, ex_text)
          [] OTHER ->
                Done(c, Result("DeferredError", "", ""))

\* parse_fn ended in o: back to the place that called it.
Handle(c, o) ==
    CASE c.site = "main" -> HandleMain(c, o)
      [] c.site = "prefix" -> HandlePrefix(c, o)
      [] OTHER -> HandleExample(c, o)

(***************************************************************************)
(* Actions.                                                                *)
(***************************************************************************)
ParseChoices(t) == IF gram[t] # Unknown THEN {gram[t]} ELSE ParseOutcomes(t)
XformChoices(t, v) ==
    IF xform[<<t, v>>] # Unknown THEN {xform[<<t, v>>]} ELSE XformOutcomes(t)

\* ParseTextEntry without the fast path: every text goes to parse_fn.
ParseTextEntryAlwaysParses(c, text) ==
    [c EXCEPT !.txt = text, !.site = "main", !.pc = "parse_fn"]

\* The head of parse_text: text that needs no parsing is returned as it
\* is; any other text goes to parse_fn.
ParseTextEntry(c, text) ==
    IF ~should_parse(text)
    THEN Done(c, Result("return", text, ""))
    ELSE [c EXCEPT !.txt = text, !.site = "main", !.pc = "parse_fn"]

\* The variable managers thread p may call with: any when it is the only
\* thread, its own when threads run side by side.
VarMansOf(p) ==
    IF Threads = OneThread THEN VarMans
    ELSE {IF p = 1 THEN "vm1" ELSE "vm2"}

\* A thread calls parse_text(text, var_man).
parse_text(p) ==
    /\ th[p].pc = "idle"
    /\ th[p].calls < MaxCalls
    /\ \E text \in OrigTexts, var_man \in VarMansOf(p) :
          th' = [th EXCEPT ![p] =
                    ParseTextEntry([th[p] EXCEPT !.entry = "parse_text",
                                                 !.text = text,
                                                 !.var_man = var_man,
                                                 !.cache0 = TREE_CACHE],
                                   text)]
    /\ UNCHANGED <<TREE_CACHE, gram, xform, env>>

\* CacheHit for a cache that never answers.
CacheHitNever(cache, txt) == FALSE

\* _TREE_CACHE.get(txt) is not None
CacheHit(cache, txt) == txt \in DOMAIN cache

\* parse_fn, first half: look the text up in the cache and, on a miss,
\* parse it.
parse_fn_lookup(p) ==
    /\ th[p].pc = "parse_fn"
    /\ th[p].entry = "parse_text"
    /\ LET c == [th[p] EXCEPT !.n_get = @ + 1]
       IN  IF CacheHit(TREE_CACHE, c.txt)
           THEN /\ th' = [th EXCEPT ![p] =
                             [c EXCEPT !.missed = FALSE,
                                       !.tree = TREE_CACHE[c.txt],
                                       !.pc = "transform"]]
                /\ UNCHANGED gram
           ELSE \E o \in ParseChoices(c.txt) :
                   /\ gram' = [gram EXCEPT ![c.txt] = o]
                   /\ LET c2 == [c EXCEPT !.n_parse = @ + 1]
                      IN  th' = [th EXCEPT ![p] =
                                    IF o.kind = "tree"
                                    THEN [c2 EXCEPT !.missed = TRUE,
                                                    !.tree = TreeOf(c.txt),
                                                    !.pc = "transform"]
                                    ELSE Handle(c2, o)]
    /\ UNCHANGED <<TREE_CACHE, xform, env>>

\* CacheInsert into a cache that keeps its latest entry only.
CacheInsertEvicting(cache, txt, tree) == [x \in {txt} |-> tree]

\* _TREE_CACHE[txt] = tree
CacheInsert(cache, txt, tree) ==
    [x \in DOMAIN cache \cup {txt} |-> IF x = txt THEN tree ELSE cache[x]]

\* StoreTree as an update of the cache the call found when it began.
StoreTreeInSnapshot(cache, c) == CacheInsert(c.cache0, c.txt, c.tree)

\* StoreTree keyed by the text of the enclosing parse_text call.
StoreTreeUnderText(cache, c) == CacheInsert(cache, c.text, c.tree)

\* The cache after parse_fn stored the tree it parsed for its argument.
StoreTree(cache, c) == CacheInsert(cache, c.txt, c.tree)

\* parse_fn, second half: store the tree just parsed and transform it.
parse_fn_transform(p) ==
    /\ th[p].pc = "transform"
    /\ LET c == [th[p] EXCEPT !.n_transform = @ + 1]
       IN  /\ TREE_CACHE' = IF c.missed
                            THEN StoreTree(TREE_CACHE, c)
                            ELSE TREE_CACHE
           /\ \E o \in XformChoices(c.tree.src, c.var_man) :
                 /\ xform' = [xform EXCEPT ![<<c.tree.src, c.var_man>>] = o]
                 /\ th' = [th EXCEPT ![p] = Handle(c, o)]
    /\ UNCHANGED <<gram, env>>

\* The head of the localization loop: reparse the next prefix, or go on to
\* the matching loop.
localize(p) ==
    /\ th[p].pc = "localize"
    /\ LET c == th[p]
       IN  th' = [th EXCEPT ![p] =
                     IF c.err_pos <= Len(c.text)
                     THEN [c EXCEPT !.txt = Prefix(c.text, c.err_pos),
                                    !.site = "prefix", !.pc = "parse_fn"]
                     ELSE [c EXCEPT !.closest_dist = InitialClosestDist,
                                    !.closest_example = NO_MATCH_EXAMPLE,
                                    !.closest_err = Unknown,
                                    !.closest_ex = <<>>,
                                    !.ex_k = 1, !.pc = "examples"]]
    /\ UNCHANGED <<TREE_CACHE, gram, xform, env>>

\* The head of the matching loop: reparse the next example, or return the
\* closest example's message.
match_examples(p) ==
    /\ th[p].pc = "examples"
    /\ LET c == th[p]
       IN  th' = [th EXCEPT ![p] =
                     IF c.ex_k <= Len(FlatExamples)
                     THEN [c EXCEPT !.txt = FlatExamples[c.ex_k].ex_text,
                                    !.site = "example", !.pc = "parse_fn"]
                     ELSE MatchReturn(c, c.closest_example.message,
                                      "closest")]
    /\ UNCHANGED <<TREE_CACHE, gram, xform, env>>

\* A thread calls check_expression(expr).
check_expression(p) ==
    /\ th[p].pc = "idle"
    /\ th[p].calls < MaxCalls
    /\ \E expr \in OrigTexts :
          th' = [th EXCEPT ![p] =
                    [th[p] EXCEPT !.entry = "check_expression",
                                  !.text = expr, !.cache0 = TREE_CACHE,
                                  !.txt = expr, !.site = "main",
                                  !.pc = "parse_fn"]]
    /\ UNCHANGED <<TREE_CACHE, gram, xform, env>>

ExprChoices(t) == IF egram[t] # Unknown THEN {egram[t]} ELSE ExprOutcomes(t)

\* parser.parse of the expression parser: the parse_fn of check_expression.
expr_parse(p) ==
    /\ th[p].pc = "parse_fn"
    /\ th[p].entry = "check_expression"
    /\ LET c == [th[p] EXCEPT !.n_parse = @ + 1]
       IN  \E o \in ExprChoices(c.txt) :
              /\ egram' = [egram EXCEPT ![c.txt] = o]
              /\ th' = [th EXCEPT ![p] = Handle(c, o)]
    /\ UNCHANGED <<TREE_CACHE, gram, xform, has_state_attr, examples, sd,
                   runs>>

\* The caller takes the result; the thread may call again.
finish(p) ==
    /\ th[p].pc = "done"
    /\ th' = [th EXCEPT ![p] = IdleFrame(th[p].calls + 1)]
    /\ UNCHANGED <<TREE_CACHE, gram, xform, env>>

Next ==
    \E p \in Threads :
        \/ parse_text(p)
        \/ parse_fn_lookup(p)
        \/ parse_fn_transform(p)
        \/ localize(p)
        \/ match_examples(p)

Spec == Init /\ [][Next]_vars

NextCalls ==
    \E p \in Threads :
        \/ parse_text(p)
        \/ parse_fn_lookup(p)
        \/ parse_fn_transform(p)
        \/ localize(p)
        \/ match_examples(p)
        \/ finish(p)

SpecCalls == InitCalls /\ [][NextCalls]_vars

\* Two calls of parse_text side by side; the steps of parse_fn (the lookup
\* with the parse, the insertion with the transformation) interleave.
SpecThreads == InitThreads /\ [][Next]_vars

\* state_stack_dist(stack1, stack2), called on its own with any two stacks.
call_state_stack_dist ==
    /\ sd.pc = "idle"
    /\ \E stack1 \in Stacks, stack2 \in Stacks :
          sd' = [pc |-> "returned", stack1 |-> stack1, stack2 |-> stack2,
                 dist1 |-> _state_stack_dist(stack1, stack2),
                 dist2 |-> _state_stack_dist(stack2, stack1),
                 total_stack_len |-> Len(stack1) + Len(stack2),
                 ret |-> state_stack_dist(stack1, stack2)]
    /\ UNCHANGED <<TREE_CACHE, gram, xform, egram, has_state_attr,
                   examples, th, runs>>

\* The caller takes the distance.
return_state_stack_dist ==
    /\ sd.pc = "returned"
    /\ sd' = IdleDist
    /\ UNCHANGED <<TREE_CACHE, gram, xform, egram, has_state_attr,
                   examples, th, runs>>

NextDist == call_state_stack_dist \/ return_state_stack_dist

\* Calls of state_stack_dist on every pair of stacks.
InitDist == InitWith(ONE_EXAMPLE, OneThread) /\ has_state_attr
SpecDist == InitDist /\ [][NextDist]_vars

\* One call of either entry point, with the whole catalog.
NextEntry ==
    \E p \in Threads :
        \/ parse_text(p)
        \/ parse_fn_lookup(p)
        \/ parse_fn_transform(p)
        \/ check_expression(p)
        \/ expr_parse(p)
        \/ localize(p)
        \/ match_examples(p)

SpecEntry == Init /\ [][NextEntry]_vars

\* Two threads, one call of either entry point each, side by side or one
\* after the other, with the catalog of one example.
SpecThreadsEntry == InitThreads /\ [][NextEntry]_vars

(***************************************************************************)
(* test_run.utils: load_tests and get_latest_tests.                        *)
(***************************************************************************)
\* The most id pairs a call of load_tests is given.
MaxPairs == 3
WorkingDirs == {"wd1", "wd2"}
TestIds == {1, 2}
ID_Pairs == WorkingDirs \X TestIds
IdPairLists == UNION {[1..n -> ID_Pairs] : n \in 0..MaxPairs}

\* TestRun.load(pav_cfg, test_wd, test_id) when it succeeds.
TestOf(id_pair) == [working_dir |-> id_pair[1], id |-> id_pair[2]]
\* What _load_test may end in: the test, or a TestRunError.
LoadOutcomes == {"loaded", "TestRunError"}

SeqContains(s, x) == \E i \in 1..Len(s) : s[i] = x

\* The loop over id_pairs: a pair that is in LOADED_TESTS gives its test, any
\* other pair is kept once for loading.
RECURSIVE FilterLoaded(_, _, _, _)
FilterLoaded(id_pairs, loaded, tests, not_loaded) ==
    IF id_pairs = <<>> THEN [tests |-> tests, not_loaded |-> not_loaded]
    ELSE LET pair == Head(id_pairs)
         IN  IF pair \in DOMAIN loaded
             THEN FilterLoaded(Tail(id_pairs), loaded,
                               Append(tests, loaded[pair]), not_loaded)
             ELSE IF ~SeqContains(not_loaded, pair)
             THEN FilterLoaded(Tail(id_pairs), loaded, tests,
                               Append(not_loaded, pair))
             ELSE FilterLoaded(Tail(id_pairs), loaded, tests, not_loaded)

\* load_tests(pav_cfg, id_pairs, errfile) up to the submission of the loads.
load_tests ==
    /\ lt.pc = "idle" /\ gl.pc = "idle"
    /\ lt.calls < MaxCalls
    /\ \E id_pairs \in IdPairLists :
          LET f == FilterLoaded(id_pairs, LOADED_TESTS, <<>>, <<>>)
              submitted == {f.not_loaded[i] : i \in 1..Len(f.not_loaded)}
          IN  lt' = [lt EXCEPT !.pc = "results", !.id_pairs = id_pairs,
                               !.tests = f.tests,
                               !.not_loaded = f.not_loaded,
                               !.results = 1,
                               !.reloaded = @ \cup (submitted \cap lt.loaded)]
    /\ UNCHANGED <<TREE_CACHE, gram, xform, egram, has_state_attr,
                   examples, th, sd, LOADED_TESTS, gl>>

\* result.result() raised TestRunError for the load of `pair`: a line goes
\* to errfile and the loop goes on.
OnLoadError(c, pair) ==
    [c EXCEPT !.errfile = Append(@, <<"Error loading test: {}", pair>>),
              !.failed = @ \cup {pair},
              !.results = @ + 1]

\* The loop over the results, in the order of submission; after the last
\* one, return tests.
load_tests_result ==
    /\ lt.pc = "results"
    /\ IF lt.results <= Len(lt.not_loaded)
       THEN LET pair == lt.not_loaded[lt.results]
            IN  \E o \in LoadOutcomes :
                   lt' = IF o = "loaded"
                         THEN [lt EXCEPT !.tests = Append(@, TestOf(pair)),
                                         !.loaded = @ \cup {pair},
                                         !.results = @ + 1]
                         ELSE OnLoadError(lt, pair)
       ELSE lt' = [lt EXCEPT !.pc = "done",
                             !.result = Result("return", lt.tests, "")]
    /\ UNCHANGED <<TREE_CACHE, gram, xform, egram, has_state_attr,
                   examples, th, sd, LOADED_TESTS, gl>>

\* The caller takes the tests and may call again.
finish_load_tests ==
    /\ lt.pc = "done"
    /\ lt' = [IdleLoad(lt.calls + 1) EXCEPT !.loaded = lt.loaded,
                                            !.reloaded = lt.reloaded]
    /\ UNCHANGED <<TREE_CACHE, gram, xform, egram, has_state_attr,
                   examples, th, sd, LOADED_TESTS, gl>>

\* The most run directories a listing holds, and the greatest limit.
MaxDirs == 3
MaxLimit == 3
\* int(test_dir.name): the names that are integers, and their values.
NameInts == [n \in {"1", "2", "07"} |-> IF n = "1" THEN 1
                                       ELSE IF n = "2" THEN 2 ELSE 7]
DirNames == DOMAIN NameInts \cup {"x", "1.5"}
Mtimes == {10, 20}
DirEntries == [name : DirNames, mtime : Mtimes]
\* The run directories of all the configs, in the order they are listed.
DirLists == UNION {[1..n -> DirEntries] : n \in 0..MaxDirs}

\* The loops over the configs and their run directories.
RECURSIVE ScanDirs(_)
ScanDirs(dirs) ==
    IF dirs = <<>> THEN <<>>
    ELSE LET test_dir == Head(dirs)
         IN  (IF test_dir.name \in DOMAIN NameInts
              THEN <<<<test_dir.mtime, NameInts[test_dir.name]>>>>
              ELSE <<>>) \o ScanDirs(Tail(dirs))

\* The order of the (mtime, test_id) tuples.
TupleLeq(a, b) == a[1] < b[1] \/ (a[1] = b[1] /\ a[2] <= b[2])

RECURSIVE SortInsert(_, _)
SortInsert(x, s) ==
    IF s = <<>> THEN <<x>>
    ELSE IF TupleLeq(x, Head(s)) THEN <<x>> \o s
    ELSE <<Head(s)>> \o SortInsert(x, Tail(s))

\* test_dir_list.sort()
RECURSIVE SortTuples(_)
SortTuples(s) ==
    IF s = <<>> THEN <<>> ELSE SortInsert(Head(s), SortTuples(Tail(s)))

\* test_dir_list[-limit:], for a limit that is not negative: -0 is 0, and
\* the slice from 0 is the whole list.
LastOf(s, limit) ==
    IF limit = 0 THEN s
    ELSE SubSeq(s, IF Len(s) > limit THEN Len(s) - limit + 1 ELSE 1, Len(s))

\* get_latest_tests(pav_cfg, limit)
get_latest_tests ==
    /\ gl.pc = "idle" /\ lt.pc = "idle"
    /\ \E dirs \in DirLists, limit \in 0..MaxLimit :
          LET test_dir_list == SortTuples(ScanDirs(dirs))
              latest == LastOf(test_dir_list, limit)
          IN  gl' = [pc |-> "returned", dirs |-> dirs, limit |-> limit,
                     test_dir_list |-> test_dir_list,
                     ret |-> [i \in 1..Len(latest) |-> latest[i][2]]]
    /\ UNCHANGED <<TREE_CACHE, gram, xform, egram, has_state_attr,
                   examples, th, sd, LOADED_TESTS, lt>>

\* The caller takes the ids.
return_get_latest_tests ==
    /\ gl.pc = "returned"
    /\ gl' = IdleLatest
    /\ UNCHANGED <<TREE_CACHE, gram, xform, egram, has_state_attr,
                   examples, th, sd, LOADED_TESTS, lt>>

NextRuns ==
    \/ load_tests
    \/ load_tests_result
    \/ finish_load_tests
    \/ get_latest_tests
    \/ return_get_latest_tests

\* Calls of load_tests and of get_latest_tests, one after the other.
InitRuns == InitWith(ONE_EXAMPLE, OneThread) /\ has_state_attr
SpecRuns == InitRuns /\ [][NextRuns]_vars

(***************************************************************************)
(* Vocabulary of the properties.                                           *)
(***************************************************************************)
\* What parse_fn(t) ends in under var_man v, as far as the environment has
\* decided it.
Res(t, v) == IF gram[t].kind = "tree" THEN xform[<<t, v>>] ELSE gram[t]

\* What the reparse of the k-th example ended in for the call of frame c.
ExOutcome(c, k) == Res(FlatExamples[k].ex_text, c.var_man)
ExMessage(k) == examples[FlatExamples[k].entry].message
ExIndices == 1..Len(FlatExamples)

\* match_examples got as far as its matching loop and returned from it.
ReturnedFromLoop(c) == c.me_how \in {"exact", "closest"}

\* The two offending characters are the same, or both word characters, or
\* both whitespace.
CharsAlike(a, b) ==
    \/ a = b
    \/ a \in WordChars /\ b \in WordChars
    \/ a \in WsChars /\ b \in WsChars

\* Example k is an exact match for the original failure of c.
IsExact(c, k) ==
    LET o == ExOutcome(c, k)
    IN  \/ /\ o.kind = "char" /\ c.exc.kind = "char"
           /\ CharsAlike(CharAt(FlatExamples[k].ex_text, o.pos),
                         CharAt(c.text, c.exc.pos))
        \/ /\ o.kind = "token" /\ c.exc.kind = "token"
           /\ o.expr_error = c.exc.expr_error
           /\ o.state = c.exc.state /\ o.token = c.exc.token

\* Example k is a fuzzy candidate for the original failure of c.
IsCandidate(c, k) ==
    LET o == ExOutcome(c, k)
    IN  /\ o.kind = "token" /\ c.exc.kind = "token"
        /\ o.expr_error = c.exc.expr_error
        /\ ~(o.state = c.exc.state /\ o.token = c.exc.token)

\* stack-distance(original, example) + 1, minus 1 for tokens of one type.
Score(c, k) ==
    LET o == ExOutcome(c, k)
        d == state_stack_dist(c.exc.state, o.state)
    IN  IF o.token.type = c.exc.token.type
        THEN d ELSE Frac(d[1] + d[2], d[2])

\* Candidate k has the lowest score of all the candidates.
IsBest(c, k) ==
    /\ IsCandidate(c, k)
    /\ \A j \in ExIndices : IsCandidate(c, j) => FracLeq(Score(c, k), Score(c, j))

CatalogMessages == {examples[i].message : i \in 1..Len(examples)}

(***************************************************************************)
(* Properties.                                                             *)
(***************************************************************************)

\* C1: a call of parse_text on a text that should_parse rejects returns
\* exactly that text, whatever the variable manager, and has made no call
\* of the parser, none of the transformer, no read of the tree cache and
\* no change to it.
C1_FastPathReturnsText ==
    \A p \in Threads :
        LET c == th[p]
        IN  (c.pc = "done" /\ ~should_parse(c.text)) =>
                /\ c.result = Result("return", c.text, "")
                /\ c.n_get = 0 /\ c.n_parse = 0 /\ c.n_transform = 0
                /\ TREE_CACHE = c.cache0

\* C1, witness: a rejected text was returned while the cache held trees.
C1_Witness ==
    \E p \in Threads :
        /\ th[p].pc = "done" /\ ~should_parse(th[p].text)
        /\ th[p].result.type = "return"
        /\ DOMAIN TREE_CACHE # {}

C3_AlwaysAMessage ==
    \A p \in Threads :
        th[p].me_ret # NoReturn =>
            th[p].me_ret \in CatalogMessages \cup {NO_MATCH_EXAMPLE.message}

\* C4: when match_examples returns from its matching loop, it returns the
\* message of the first example in catalog order that is an exact match;
\* if there is none, the message of a fuzzy candidate of lowest score; if
\* there is no candidate either, the fallback message.
C4_FirstExactThenBestFuzzy ==
    \A p \in Threads :
        LET c == th[p]
        IN  ReturnedFromLoop(c) =>
                IF \E k \in ExIndices : IsExact(c, k)
                THEN \E k \in ExIndices :
                        /\ IsExact(c, k)
                        /\ \A j \in 1..(k - 1) : ~IsExact(c, j)
                        /\ c.me_ret = ExMessage(k)
                ELSE IF \E k \in ExIndices : IsCandidate(c, k)
                THEN \E k \in ExIndices : IsBest(c, k) /\ c.me_ret = ExMessage(k)
                ELSE c.me_ret = NO_MATCH_EXAMPLE.message

\* C4, witness: an exact match in the second entry was returned although
\* an example of the first entry had been kept as a fuzzy candidate.
C4_Witness ==
    \E p \in Threads :
        LET c == th[p]
        IN  /\ c.me_how = "exact"
            /\ FlatExamples[c.ex_k].entry = 2
            /\ c.closest_example = examples[1]
            /\ c.me_ret = examples[2].message

\* C5 as claimed: with no exact match, of the candidates with the lowest
\* score the first in catalog order gives the message.
C5_TiesFavorFirst ==
    \A p \in Threads :
        LET c == th[p]
        IN  (c.me_how = "closest" /\ \E k \in ExIndices : IsCandidate(c, k)) =>
                \E k \in ExIndices :
                    /\ IsBest(c, k)
                    /\ \A j \in 1..(k - 1) : ~IsBest(c, j)
                    /\ c.me_ret = ExMessage(k)

\* C5, amended: with no exact match, of the candidates with the lowest
\* score the last in catalog order gives the message.
C5_TiesFavorLast ==
    \A p \in Threads :
        LET c == th[p]
        IN  (c.me_how = "closest" /\ \E k \in ExIndices : IsCandidate(c, k)) =>
                \E k \in ExIndices :
                    /\ IsBest(c, k)
                    /\ \A j \in ExIndices : j > k => ~IsBest(c, j)
                    /\ c.me_ret = ExMessage(k)

\* C5, witness: two examples of different entries share the lowest score
\* and the loop returned.
C5_Witness ==
    \E p \in Threads :
        LET c == th[p]
        IN  /\ c.me_how = "closest"
            /\ \E j, k \in ExIndices :
                  /\ FlatExamples[j].entry # FlatExamples[k].entry
                  /\ IsBest(c, j) /\ IsBest(c, k)

\* C6 as claimed: an example whose reparse ended in anything but a grammar
\* failure (a value, a ParserValueError, any other exception) has made the
\* call end in the internal error.
C6_BadExampleAlwaysRaises ==
    \A p \in Threads :
        LET c == th[p]
        IN  \A k \in ExIndices :
                ExOutcome(c, k).kind \in {"value", "pve", "deferred"} =>
                    c.pc = "done" /\ c.result.type = "RuntimeError"

\* C6, amended: an example whose reparse raised a ParserValueError has made
\* the call end, at that example, in the internal error; an example that
\* was parsed and transformed without failure is passed over; an example
\* that raised any other exception has made the call end in that
\* exception; and the internal error has no other cause.
C6_OnlyValueErrorsRaise ==
    \A p \in Threads :
        LET c == th[p]
        IN  /\ \A k \in ExIndices :
                  LET o == ExOutcome(c, k)
                  IN  /\ o.kind = "pve" =>
                            /\ c.pc = "done" /\ c.ex_k = k
                            /\ c.result = Result("RuntimeError",
                                                 "Invalid failure example",
                                                 FlatExamples[k].ex_text)
                      /\ o.kind = "value" =>
                            /\ c.ex_k > k
                            /\ c.result.type # "RuntimeError"
                                  \/ c.result.context # FlatExamples[k].ex_text
                      /\ o.kind = "deferred" =>
                            /\ c.pc = "done" /\ c.ex_k = k
                            /\ c.result.type = "DeferredError"
            /\ c.result.type = "RuntimeError" =>
                  c.site = "example" /\ ExOutcome(c, c.ex_k).kind = "pve"

\* C6, witness: the internal error was raised at the third example after
\* an example that parsed without failure had been passed over.
C6_Witness ==
    \E p \in Threads :
        LET c == th[p]
        IN  /\ c.pc = "done" /\ c.result.type = "RuntimeError"
            /\ c.ex_k = 3
            /\ \E k \in 1..2 : ExOutcome(c, k).kind = "value"

\* C7 as claimed: no text whose resolution through parse_fn ended in a
\* grammar failure is a key of the tree cache.
C7_NoFailedTextCached ==
    \A t \in DOMAIN TREE_CACHE :
        \A v \in VarMans : ~IsGrammarFailure(Res(t, v))

\* C7, amended: every key of the tree cache is a text the template grammar
\* accepted, stored with the tree the grammar derives for it; a text whose
\* transformation raised a grammar failure stays in the cache.
C7_OnlyParsedTextCached ==
    \A t \in DOMAIN TREE_CACHE :
        gram[t].kind = "tree" /\ TREE_CACHE[t] = TreeOf(t)

\* C7, witness: in a second call, one text the grammar rejected is not in
\* the cache while a text whose transformation raised a grammar failure is.
C7_Witness ==
    /\ \E p \in Threads : th[p].calls >= 1 /\ th[p].pc = "done"
    /\ \E t \in AllTexts : IsGrammarFailure(gram[t]) /\ t \notin DOMAIN TREE_CACHE
    /\ \E t \in DOMAIN TREE_CACHE :
          \E v \in VarMans : IsGrammarFailure(xform[<<t, v>>])

\* C8: for a token failure, an example is used only with the same
\* annotation: an exact return comes from a token example with the
\* annotation, the state and the token of the original failure; the
\* closest example kept has the annotation of the original failure; and no
\* example passed over had the annotation, the state and the token of the
\* original failure.
C8_AnnotationsNeverCross ==
    \A p \in Threads :
        LET c == th[p]
        IN  c.exc.kind = "token" =>
                /\ c.me_how = "exact" =>
                      LET o == ExOutcome(c, c.ex_k)
                      IN  /\ o.kind = "token"
                          /\ o.expr_error = c.exc.expr_error
                          /\ o.state = c.exc.state /\ o.token = c.exc.token
                /\ c.closest_ex # <<>> =>
                      /\ c.closest_err.kind = "token"
                      /\ c.closest_err.expr_error = c.exc.expr_error
                      /\ c.closest_err = Res(c.closest_ex, c.var_man)
                /\ \A k \in ExIndices :
                      LET o == ExOutcome(c, k)
                      IN  (k < c.ex_k /\ o.kind = "token"
                              /\ o.expr_error = c.exc.expr_error) =>
                             ~(o.state = c.exc.state /\ o.token = c.exc.token)

\* C8, witness: the call returned after passing over a token example with
\* the state and the token of the original failure and the other
\* annotation.
C8_Witness ==
    \E p \in Threads :
        LET c == th[p]
        IN  /\ c.exc.kind = "token" /\ ReturnedFromLoop(c)
            /\ \E k \in ExIndices :
                  LET o == ExOutcome(c, k)
                  IN  /\ k < c.ex_k /\ o.kind = "token"
                      /\ o.expr_error # c.exc.expr_error
                      /\ o.state = c.exc.state /\ o.token = c.exc.token

\* C9: for a character failure, an exact return comes from a character
\* example whose offending character is alike the original one (equal,
\* both word characters or both whitespace); no character example passed
\* over has such a character; and no example leaves anything else behind:
\* no closest example is kept and the loop, if it ends, returns the
\* fallback message.
C9_CharacterMatch ==
    \A p \in Threads :
        LET c == th[p]
        IN  c.exc.kind = "char" =>
                /\ c.me_how = "exact" =>
                      LET o == ExOutcome(c, c.ex_k)
                      IN  /\ o.kind = "char"
                          /\ CharsAlike(
                                CharAt(FlatExamples[c.ex_k].ex_text, o.pos),
                                CharAt(c.text, c.exc.pos))
                          /\ c.me_ret = ExMessage(c.ex_k)
                /\ \A k \in ExIndices :
                      LET o == ExOutcome(c, k)
                      IN  (k < c.ex_k /\ o.kind = "char") =>
                             ~CharsAlike(CharAt(FlatExamples[k].ex_text, o.pos),
                                         CharAt(c.text, c.exc.pos))
                /\ c.closest_example = NO_MATCH_EXAMPLE /\ c.closest_ex = <<>>
                /\ c.me_how = "closest" => c.me_ret = NO_MATCH_EXAMPLE.message

\* C9, witness: an exact return for two different characters of one class.
C9_Witness ==
    \E p \in Threads :
        LET c == th[p]
        IN  /\ c.exc.kind = "char" /\ c.me_how = "exact"
            /\ CharAt(FlatExamples[c.ex_k].ex_text, ExOutcome(c, c.ex_k).pos)
                  # CharAt(c.text, c.exc.pos)

\* C10: with no exact match and at least one candidate, the message
\* returned is that of a candidate whose score, stack-distance(original,
\* example) + 1 minus 1 for tokens of one type, is the lowest of all the
\* candidates, and closest_dist is that score.
C10_LowestScoreReturned ==
    \A p \in Threads :
        LET c == th[p]
        IN  (c.me_how = "closest" /\ \E k \in ExIndices : IsCandidate(c, k)) =>
                /\ \E k \in ExIndices : IsBest(c, k) /\ c.me_ret = ExMessage(k)
                /\ \A k \in ExIndices :
                      IsBest(c, k) => FracEq(c.closest_dist, Score(c, k))

\* C10, witness: the first entry was returned because its example scored
\* lower than a later candidate of the second entry.
C10_Witness ==
    \E p \in Threads :
        LET c == th[p]
        IN  /\ c.me_how = "closest"
            /\ c.me_ret = examples[1].message
            /\ \E j, k \in ExIndices :
                  /\ FlatExamples[j].entry = 1 /\ FlatExamples[k].entry = 2
                  /\ IsCandidate(c, j) /\ IsCandidate(c, k)
                  /\ FracLt(Score(c, j), Score(c, k))

\* The message the matching loop yields for the original failure of c and
\* the outcomes of the examples: the first exact match, else the last of the
\* candidates of lowest score, else the fallback.
ExpectedMessage(c) ==
    IF \E k \in ExIndices : IsExact(c, k)
    THEN ExMessage(CHOOSE k \in ExIndices :
                       /\ IsExact(c, k)
                       /\ \A j \in 1..(k - 1) : ~IsExact(c, j))
    ELSE IF \E k \in ExIndices : IsCandidate(c, k)
    THEN ExMessage(CHOOSE k \in ExIndices :
                       /\ IsBest(c, k)
                       /\ \A j \in (k + 1)..Len(FlatExamples) : ~IsBest(c, j))
    ELSE NO_MATCH_EXAMPLE.message

\* No reparse of an example ends in an error that is not a grammar failure.
ExamplesParseOrFail(c) ==
    \A k \in ExIndices : ExOutcome(c, k).kind \notin {"pve", "deferred"}

\* C11 as claimed: for a fixed original failure (one that carries a parser
\* state) and a fixed catalog, the message match_examples returns is the one
\* the original failure and the examples determine, whatever the reparses of
\* the prefixes of the localization loop did: succeed, fail at the same
\* state, fail at another state, or fail in any other way.
C11_PrefixesNeverChangeMessage ==
    \A p \in Threads :
        LET c == th[p]
        IN  (/\ c.pc = "done" /\ IsGrammarFailure(c.exc) /\ has_state_attr
             /\ ExamplesParseOrFail(c)) =>
                /\ c.me_ret = ExpectedMessage(c)
                /\ c.result.type = "StringParserError"
                /\ c.result.value = c.me_ret

\* C12 as claimed: whichever entry point was called, when the classifier
\* returned for a grammar failure the error raised is a StringParserError
\* whose message is the message the classifier returned and whose context
\* is the rendering of the original failure in the original text.
C12_MessageIsClassifierMessage ==
    \A p \in Threads :
        LET c == th[p]
        IN  (c.pc = "done" /\ c.me_ret # NoReturn) =>
                /\ c.result.type = "StringParserError"
                /\ c.result.value = c.me_ret
                /\ c.result.context = get_context(c.exc, c.text)

\* C12, amended: the context is the rendering of the original failure in
\* the original text for both entry points; the message is the classifier's
\* message for parse_text, and for check_expression that message followed
\* by a colon, a newline and the rendered context.
C12_MessagePerEntryPoint ==
    \A p \in Threads :
        LET c == th[p]
        IN  (c.pc = "done" /\ c.me_ret # NoReturn) =>
                /\ c.result.type = "StringParserError"
                /\ c.result.context = get_context(c.exc, c.text)
                /\ c.entry = "parse_text" => c.result.value = c.me_ret
                /\ c.entry = "check_expression" =>
                      c.result.value =
                          c.me_ret \o ":\n"
                          \o RenderContext(c.result.context)

\* C12, witness: check_expression raised an error for an expression that
\* failed after its first character and that the classifier matched
\* exactly.
C12_Witness ==
    \E p \in Threads :
        LET c == th[p]
        IN  /\ c.pc = "done" /\ c.entry = "check_expression"
            /\ c.me_how = "exact" /\ c.me_ret \in CatalogMessages
            /\ c.result.type = "StringParserError"
            /\ c.exc.pos > 0

\* C13: in a sequential run, once the template grammar has derived a tree
\* for a text, no later parse_fn for that text (in the same call or a later
\* one, with any variable manager) calls the grammar: it takes the tree of
\* the cache, which is the tree the grammar derived, and transforms it.
C13_ParsedAtMostOnce ==
    [][\A p \in Threads :
          LET c == th[p]
          IN  (/\ c.pc = "parse_fn" /\ c.entry = "parse_text"
               /\ th'[p] # c
               /\ gram[c.txt].kind = "tree") =>
                  /\ th'[p].n_parse = c.n_parse
                  /\ gram' = gram
                  /\ th'[p].pc = "transform"
                  /\ th'[p].tree = TreeOf(c.txt)]_vars

\* C13, witness: a later call with another variable manager is about to
\* transform the tree of a text without having called the grammar, which
\* an earlier call had parsed.
C13_Witness ==
    \E p \in Threads :
        LET c == th[p]
        IN  /\ c.pc = "transform" /\ c.calls > 0 /\ c.site = "main"
            /\ c.n_parse = 0 /\ c.n_get = 1
            /\ gram[c.txt].kind = "tree"
            /\ c.tree = TreeOf(c.txt)
            /\ \E v \in VarMans \ {c.var_man} : xform[<<c.txt, v>>] # Unknown

\* The two results are of one kind and carry the same value and context.
SameResult(a, b) ==
    /\ a.type = b.type
    /\ a.value = b.value
    /\ a.context = b.context

\* What parse_text(text, v) ends in when it runs alone, from the answers of
\* the parser and the transformer: the first reparse of a prefix, then of
\* an example, that ends the call decides.
SoloResult(text, v) ==
    LET o == Res(text, v)
        c0 == [IdleFrame(0) EXCEPT !.entry = "parse_text", !.text = text,
                                   !.var_man = v, !.exc = o]
        context == get_context(o, text)
        Raised(r) == r.kind \in {"pve", "deferred"}
        BadPrefixes == {n \in (o.pos + 1)..Len(text) :
                           Raised(Res(Prefix(text, n), v))}
        Decisive == {k \in ExIndices :
                        Raised(ExOutcome(c0, k)) \/ IsExact(c0, k)}
        Least(S) == CHOOSE x \in S : \A y \in S : x <= y
        Deferred == Result("DeferredError", "", "")
    IN  IF ~should_parse(text) THEN Result("return", text, "")
        ELSE IF o.kind = "value"
        THEN Result("return", ValueOf(text, v), "")
        ELSE IF o.kind = "pve"
        THEN Result("StringParserError", PveMessage, context)
        ELSE IF o.kind = "deferred" THEN Deferred
        ELSE IF ~has_state_attr
        THEN Result("StringParserError", None, context)
        ELSE IF BadPrefixes # {}
        THEN IF Res(Prefix(text, Least(BadPrefixes)), v).kind = "pve"
             THEN Result("ParserValueError", PveMessage, "")
             ELSE Deferred
        ELSE IF Decisive # {}
        THEN LET k == Least(Decisive)
             IN  IF ExOutcome(c0, k).kind = "pve"
                 THEN Result("RuntimeError", "Invalid failure example",
                             FlatExamples[k].ex_text)
                 ELSE IF ExOutcome(c0, k).kind = "deferred" THEN Deferred
                 ELSE Result("StringParserError", ExMessage(k), context)
        ELSE Result("StringParserError", ExpectedMessage(c0), context)

\* C14: whatever the interleaving of two calls of parse_text running side
\* by side, each with its own variable manager, a call that is over
\* returned or raised what it would have alone;
\* and every text the grammar parsed and parse_fn stored is a key of the
\* cache, bound to the tree the grammar yields for it, also when both calls
\* missed the cache for that text, parsed it and stored it.
C14_AsIfAlone ==
    /\ \A p \in Threads :
          LET c == th[p]
          IN  c.pc = "done" =>
                  SameResult(c.result, SoloResult(c.text, c.var_man))
    /\ \A t \in AllTexts :
          (/\ gram[t].kind = "tree"
           /\ \A p \in Threads :
                 ~(th[p].pc = "transform" /\ th[p].missed /\ th[p].txt = t))
          => /\ t \in DOMAIN TREE_CACHE
             /\ TREE_CACHE[t] = TreeOf(t)

\* C14, witness: both calls missed the cache for the same text, both parsed
\* it and stored it (the second then found it when it reparsed the whole
\* text as a prefix), and both calls are over, one having returned a value
\* and the other, with another variable manager, having raised.
C14_Witness ==
    /\ \A p \in Threads :
          /\ th[p].pc = "done"
          /\ th[p].text = OpenExprText
          /\ gram[OpenExprText].kind = "tree"
    /\ th[1].n_get = 1 /\ th[1].n_parse = 1
    /\ th[2].n_get = 3 /\ th[2].n_parse = 2
    /\ th[1].result.type = "return"
    /\ th[2].result.type = "StringParserError"
    /\ th[2].me_how = "exact"
    /\ OpenExprText \in DOMAIN TREE_CACHE

\* C15: across the calls of parse_text and check_expression, whether they
\* follow each other or interleave, no step removes a key of the tree cache
\* and no step changes the tree stored under a key.
C15_InsertOnly ==
    [][\A t \in DOMAIN TREE_CACHE :
          /\ t \in DOMAIN TREE_CACHE'
          /\ TREE_CACHE'[t] = TREE_CACHE[t]]_vars

\* C15, witness: a call of check_expression is over, the other thread's
\* call of parse_text has stored the tree of its text and of a prefix, and
\* the text was parsed by check_expression too.
C15_Witness ==
    \E p, q \in Threads :
        /\ th[p].pc = "done" /\ th[p].entry = "check_expression"
        /\ th[q].pc = "done" /\ th[q].entry = "parse_text"
        /\ th[p].text = th[q].text
        /\ th[q].text \in DOMAIN TREE_CACHE
        /\ Cardinality(DOMAIN TREE_CACHE) >= 2

\* The cursor into B after the scan of the first i elements of A: it starts
\* at 0, moves just past a match found at or after it, stays on a miss.
RECURSIVE CursorAfter(_, _, _)
CursorAfter(A, B, i) ==
    IF i = 0 THEN 0
    ELSE LET cur == CursorAfter(A, B, i - 1)
             hits == {j \in (cur + 1)..Len(B) : B[j] = A[i]}
         IN  IF hits = {} THEN cur
             ELSE CHOOSE j \in hits : \A k \in hits : j <= k

\* The elements of A the scan leaves unmatched.
Unmatched(A, B) ==
    {i \in 1..Len(A) :
        \A j \in (CursorAfter(A, B, i - 1) + 1)..Len(B) : B[j] # A[i]}

\* C16: for all stacks A and B, _state_stack_dist(A, B) is the number of
\* elements of A the cursor scan leaves unmatched; state_stack_dist(A, B)
\* is the sum of the two directional distances over |A| + |B|, and 0 when
\* both are empty; it is the same for (B, A); and for A = [a,b,c,d],
\* B = [a,c,d] the directional distances are 1 and 0 and the result 1/7.
C16_StackDistance ==
    sd.pc = "returned" =>
        LET A == sd.stack1
            B == sd.stack2
        IN  /\ sd.dist1 = Cardinality(Unmatched(A, B))
            /\ sd.dist2 = Cardinality(Unmatched(B, A))
            /\ IF Len(A) + Len(B) = 0
               THEN sd.ret = Frac(0, 1)
               ELSE sd.ret = Frac(Cardinality(Unmatched(A, B))
                                  + Cardinality(Unmatched(B, A)),
                                  Len(A) + Len(B))
            /\ FracEq(sd.ret, state_stack_dist(B, A))
            /\ (A = <<1, 2, 3, 4>> /\ B = <<1, 3, 4>>) =>
                  /\ sd.dist1 = 1 /\ sd.dist2 = 0
                  /\ FracEq(sd.ret, Frac(1, 7))

\* C16, witness: the distance of [a,b,c,d] and [a,c,d] was computed, and it
\* is 1/7.
C16_Witness ==
    /\ sd.pc = "returned"
    /\ sd.stack1 = <<1, 2, 3, 4>> /\ sd.stack2 = <<1, 3, 4>>
    /\ sd.ret = Frac(1, 7)

\* The parser states that occur in a stack.
StatesOf(stack) == {stack[i] : i \in 1..Len(stack)}

\* C17: for all stacks A and B, state_stack_dist(A, B) is at least 0 and at
\* most 1; it is 0 when A and B are identical, and 1 when they are not both
\* empty and no state occurs in both.
C17_DistanceWithinUnit ==
    sd.pc = "returned" =>
        LET A == sd.stack1
            B == sd.stack2
        IN  /\ FracLeq(Frac(0, 1), sd.ret)
            /\ FracLeq(sd.ret, Frac(1, 1))
            /\ A = B => FracEq(sd.ret, Frac(0, 1))
            /\ (Len(A) + Len(B) > 0 /\ StatesOf(A) \cap StatesOf(B) = {})
                  => FracEq(sd.ret, Frac(1, 1))

\* C17, witness: the distance of two stacks of different lengths with no
\* state in common was computed, one of them repeating a state.
C17_Witness ==
    /\ sd.pc = "returned"
    /\ sd.stack1 = <<1, 2>> /\ sd.stack2 = <<3, 4, 3>>
    /\ FracEq(sd.ret, Frac(1, 1))

\* C18: when the transformation of the text given to parse_text hits a
\* deferred variable, the call ends by raising that deferred-variable error:
\* it returns nothing, raises no StringParserError, and match_examples was
\* not entered: no prefix and no example was reparsed.
C18_DeferredPropagates ==
    \A p \in Threads :
        LET c == th[p]
        IN  (/\ c.pc = "done" /\ c.entry = "parse_text"
             /\ should_parse(c.text)
             /\ Res(c.text, c.var_man).kind = "deferred") =>
                /\ c.result = Result("DeferredError", "", "")
                /\ c.me_ret = NoReturn /\ c.me_how = ""
                /\ c.site = "main" /\ c.exc = Unknown
                /\ c.err_pos = 0 /\ c.ex_k = 0
                /\ c.n_get = 1 /\ c.n_parse = 1 /\ c.n_transform = 1

\* C18, witness: a call ended on a deferred variable of its text, whose tree
\* it had parsed and stored.
C18_Witness ==
    \E p \in Threads :
        LET c == th[p]
        IN  /\ c.pc = "done" /\ c.result.type = "DeferredError"
            /\ c.site = "main"
            /\ xform[<<c.text, c.var_man>>].kind = "deferred"
            /\ c.text \in DOMAIN TREE_CACHE

\* C19 as claimed: a call of load_tests in which the load of one of the
\* requested id pairs failed with a TestRunError ends by raising
\* TestRunError, not by returning a list.
C19_LoadFailureRaises ==
    (lt.pc = "done" /\ lt.failed # {}) => lt.result.type = "TestRunError"

\* The directories get_latest_tests picked, as indices into the listing.
Picks(dirs, n) ==
    {idx \in [1..n -> 1..Len(dirs)] :
        \A i, j \in 1..n : i # j => idx[i] # idx[j]}

\* C20 as claimed: for every limit that is not negative, get_latest_tests
\* returns at most `limit` ids: those of the `limit` directories of
\* greatest modification time among the directories whose name is an
\* integer (all of them when they are fewer), in ascending order of
\* modification time; no directory with another name contributes.
C20_AtMostLimitLatest ==
    gl.pc = "returned" =>
        LET dirs == gl.dirs
            IntDirs == {i \in 1..Len(dirs) : dirs[i].name \in DOMAIN NameInts}
            n == IF Cardinality(IntDirs) < gl.limit
                 THEN Cardinality(IntDirs) ELSE gl.limit
        IN  /\ Len(gl.ret) <= gl.limit
            /\ Len(gl.ret) = n
            /\ \E idx \in Picks(dirs, n) :
                  /\ \A i \in 1..n :
                        /\ idx[i] \in IntDirs
                        /\ gl.ret[i] = NameInts[dirs[idx[i]].name]
                  /\ \A i, j \in 1..n :
                        i < j => dirs[idx[i]].mtime <= dirs[idx[j]].mtime
                  /\ \A k \in IntDirs :
                        (\A i \in 1..n : idx[i] # k) =>
                            \A i \in 1..n :
                                dirs[k].mtime <= dirs[idx[i]].mtime

\* C21 as claimed: over a sequence of calls of load_tests, no id pair whose
\* load has returned a test is submitted for loading again: once a call is
\* over, the pairs it loaded are keys of LOADED_TESTS, and a later call
\* takes their tests from there.
C21_LoadedOnlyOnce ==
    /\ lt.reloaded = {}
    /\ lt.pc = "idle" => lt.loaded \subseteq DOMAIN LOADED_TESTS

\* Example k reparsed to a token failure annotated as the original failure.
IsTokenPeer(c, k) ==
    LET o == ExOutcome(c, k)
    IN  /\ o.kind = "token" /\ c.exc.kind = "token"
        /\ o.expr_error = c.exc.expr_error

\* C22: every score match_examples computes for a candidate is at least 0
\* and at most 2, the score kept as the closest too; and when the original
\* failure is a token failure and the matching loop reparsed an example to
\* a token failure with the same annotation, match_examples does not
\* return the fallback message.
C22_CeilingNeverRejects ==
    \A p \in Threads :
        LET c == th[p]
        IN  /\ FracLeq(Frac(0, 1), c.closest_dist)
            /\ FracLeq(c.closest_dist, Frac(2, 1))
            /\ (c.entry = "parse_text" /\ c.exc.kind = "token") =>
                  /\ \A k \in 1..c.ex_k :
                        (k \in ExIndices /\ IsCandidate(c, k)) =>
                            /\ FracLeq(Frac(0, 1), Score(c, k))
                            /\ FracLeq(Score(c, k), Frac(2, 1))
                  /\ (/\ c.me_ret # NoReturn
                      /\ \E k \in 1..c.ex_k :
                            k \in ExIndices /\ IsTokenPeer(c, k))
                        => c.me_ret # NO_MATCH_EXAMPLE.message

\* C22, witness: the only candidates scored 2, the ceiling itself (no state
\* in common, tokens of different types), and the message of one of them
\* was returned.
C22_Witness ==
    \E p \in Threads :
        LET c == th[p]
        IN  /\ c.me_how = "closest" /\ c.me_ret \in CatalogMessages
            /\ FracEq(c.closest_dist, Frac(2, 1))
            /\ c.closest_err.state = Stack3
            /\ \E k \in ExIndices : IsCandidate(c, k)
            /\ \A k \in ExIndices :
                  IsCandidate(c, k) => FracEq(Score(c, k), Frac(2, 1))

====
